---- MODULE Spec2Model ----
(***************************************************************************)
(* A model of commons/http_rest_client.py: HttpRestClient (URL building,   *)
(* the request factory of BoilerplateFunctionsMixin, execute with its      *)
(* retry loop and linear backoff, the scoped session, and the thread-pool  *)
(* fan-out execute_in_thread_pool).                                        *)
(***************************************************************************)
EXTENDS Integers, Sequences, FiniteSets, TLC

(***************************************************************************)
(* Bounds of the model.                                                    *)
(***************************************************************************)
MaxRetry == 3
MaxDelay == 2
MaxId == 1
MaxFuncs == 3
MaxThreads == 2
MaxPoolRetry == 2

(***************************************************************************)
(* Python values that reach the code as None, an int or a str.  A str is a *)
(* sequence of one-character strings.  Every value has the same three      *)
(* fields so that values of different Python types can be compared.        *)
(***************************************************************************)
PyNone == [t |-> "none", n |-> 0, s |-> <<>>]
PyInt(k) == [t |-> "int", n |-> k, s |-> <<>>]
PyStr(chars) == [t |-> "str", n |-> 0, s |-> chars]

\* Python truthiness: None, 0 and "" are falsy.
Truthy(v) == \/ v.t = "int" /\ v.n # 0
             \/ v.t = "str" /\ v.s # <<>>

\* Python's `a or b`.
PyOr(a, b) == IF Truthy(a) THEN a ELSE b

Digit(d) == CASE d = 0 -> "0" [] d = 1 -> "1" [] d = 2 -> "2" [] d = 3 -> "3"
              [] d = 4 -> "4" [] d = 5 -> "5" [] d = 6 -> "6" [] d = 7 -> "7"
              [] d = 8 -> "8" [] d = 9 -> "9"

RECURSIVE NatToStr(_)
NatToStr(k) == IF k < 10 THEN <<Digit(k)>>
               ELSE NatToStr(k \div 10) \o <<Digit(k % 10)>>

\* Python's str(int).
IntToStr(k) == IF k < 0 THEN <<"-">> \o NatToStr(0 - k) ELSE NatToStr(k)

\* str.startswith('/')
StartsWithSlash(chars) == Len(chars) > 0 /\ chars[1] = "/"

(***************************************************************************)
(* HttpRestClient.make_url.  The result is either the url or the           *)
(* ValueError('base_url is not set').                                      *)
(***************************************************************************)
UrlOk(chars) == [raised |-> FALSE, err |-> "", url |-> chars]
UrlError(e) == [raised |-> TRUE, err |-> e, url |-> <<>>]

\* Lines 125-126: a suffix that is not a str is converted with str().
SuffixStr(append_suffix) ==
    IF append_suffix.t # "str" THEN IntToStr(append_suffix.n)
    ELSE append_suffix.s

\* Lines 127-128: a '/' is put in front of a suffix that does not start with one.
SlashedSuffix(chars) == IF ~StartsWithSlash(chars) THEN <<"/">> \o chars ELSE chars

make_url(url_base, append_suffix) ==
    IF ~Truthy(url_base) THEN UrlError("ValueError")
    ELSE IF Truthy(append_suffix)
         THEN UrlOk(url_base.s \o SlashedSuffix(SuffixStr(append_suffix)))
         ELSE UrlOk(url_base.s)

(***************************************************************************)
(* The transport (requests.Session.get/post/put/delete) is external: one   *)
(* call either returns a response with a status code or raises a transport *)
(* error.  Response.raise_for_status raises for a 4xx or 5xx status.       *)
(***************************************************************************)
ReplyResponse(status) == [t |-> "response", status |-> status]
ReplyTransportError == [t |-> "error", status |-> 0]
Replies == {ReplyResponse(200), ReplyResponse(404), ReplyResponse(500),
            ReplyTransportError}

\* raise_for_status that lets a 4xx status through.
RaisesForStatusServerOnly(status) == status >= 500 /\ status < 600

RaisesForStatus(status) == status >= 400 /\ status < 600

(***************************************************************************)
(* The request factory.  An operation is the closure a make_*_function     *)
(* returns: the verb and the captured id_ / json.  A json dict is modelled *)
(* by whether it has the key 'id' and by the value under it.               *)
(***************************************************************************)
NoJson == [has_id |-> FALSE, id |-> PyNone]
Json(v) == [has_id |-> TRUE, id |-> v]

make_get_function == [verb |-> "GET", id_ |-> PyNone, json |-> NoJson]
make_get_by_id_function(id_) == [verb |-> "GET_BY_ID", id_ |-> id_, json |-> NoJson]
make_post_function(json) == [verb |-> "POST", id_ |-> PyNone, json |-> json]
make_put_function(json) == [verb |-> "PUT", id_ |-> PyNone, json |-> json]
make_delete_function(id_) == [verb |-> "DELETE", id_ |-> id_, json |-> NoJson]

\* The outcome of one invocation of an operation: what it sent to the
\* transport (at most one request), and the response it returned or the
\* exception it raised.  serial numbers the invocation.
Request(method, url) == [method |-> method, url |-> url]
NoResponse == [status |-> 0, url |-> <<>>, serial |-> 0]

OpRaised(e) == [raised |-> TRUE, err |-> e, sent |-> <<>>, response |-> NoResponse]

\* session.<method>(url): the request is sent; the transport answers `reply`.
Send(method, url, reply, serial) ==
    IF reply.t = "error"
    THEN [raised |-> TRUE, err |-> "TransportError",
          sent |-> <<Request(method, url)>>, response |-> NoResponse]
    ELSE [raised |-> FALSE, err |-> "",
          sent |-> <<Request(method, url)>>,
          response |-> [status |-> reply.status, url |-> url, serial |-> serial]]

\* The url of the operation: json['id'] raises KeyError when the key is absent.
OpSuffix(op) == IF op.verb \in {"GET_BY_ID", "DELETE"} THEN op.id_
                ELSE IF op.verb = "PUT" THEN op.json.id
                ELSE PyNone

OpMethod(op) == CASE op.verb = "GET" -> "GET"
                  [] op.verb = "GET_BY_ID" -> "GET"
                  [] op.verb = "POST" -> "POST"
                  [] op.verb = "PUT" -> "PUT"
                  [] op.verb = "DELETE" -> "DELETE"

\* A closure that keeps the base_url it saw when it was made.
OpBaseUrlAtBuild(url_at_build, url_at_call) == url_at_build

\* Lines 21, 28, 35, 42, 49: make_url is called inside _func, so it reads
\* self.base_url when the operation is invoked.
OpBaseUrl(url_at_build, url_at_call) == url_at_call

\* The body _func of the closures of lines 19-52.
Invoke(op, url_base, reply, serial) ==
    IF op.verb = "PUT" /\ ~op.json.has_id THEN OpRaised("KeyError")
    ELSE LET u == make_url(url_base, OpSuffix(op))
         IN IF u.raised THEN OpRaised(u.err)
            ELSE Send(OpMethod(op), u.url, reply, serial)

(***************************************************************************)
(* HttpRestClient.execute.  A frame holds the locals of one call of        *)
(* execute (executable, retry_count, retry_delay, i), its position pc, its *)
(* outcome, and a record of what the call did: the number of invocations   *)
(* of the operation, the outcome of each attempt, the sleeps performed and *)
(* the requests sent.                                                      *)
(***************************************************************************)
NoResult == [kind |-> "none", err |-> "", attempt |-> 0, response |-> NoResponse]
\* The loop of line 85 ended without a return: the function returns None.
ResultNone == [kind |-> "None", err |-> "", attempt |-> 0, response |-> NoResponse]
ResultResponse(response, attempt) ==
    [kind |-> "response", err |-> "", attempt |-> attempt, response |-> response]
ResultError(e, attempt) ==
    [kind |-> "error", err |-> e, attempt |-> attempt, response |-> NoResponse]

IdleFrame ==
    [pc |-> "idle", executable |-> make_get_function,
     retry_count |-> 0, retry_delay |-> 0, i |-> 0,
     calls |-> 0, outcomes |-> <<>>, sleeps |-> <<>>, sent |-> <<>>,
     result |-> NoResult]

\* A client that ignores the per-call retry_count.
ResolveRetryCountBaseOnly(retry_count, base) == base

\* Lines 82-83: a falsy argument (None or 0) is replaced by the client's base value.
ResolveRetryCount(retry_count, base) == PyOr(retry_count, PyInt(base)).n
ResolveRetryDelay(retry_delay, base) == PyOr(retry_delay, PyInt(base)).n

\* The resolved count written back to the client.
BaseRetryCountStored(base, resolved) == resolved

\* Line 82 rebinds the local name retry_count; self.base_retry_count is read
\* and never assigned.
BaseRetryCountAfterEnter(base, resolved) == base

\* Line 85: range(retry_count) is empty for retry_count <= 0.
ExecuteEnter(executable, retry_count, retry_delay, base_count, base_delay) ==
    LET rc == ResolveRetryCount(retry_count, base_count)
        rd == ResolveRetryDelay(retry_delay, base_delay)
    IN [IdleFrame EXCEPT !.executable = executable,
                         !.retry_count = rc,
                         !.retry_delay = rd,
                         !.pc = IF rc > 0 THEN "try" ELSE "returned",
                         !.result = IF rc > 0 THEN NoResult ELSE ResultNone]

\* The comparison of line 92 off by one.
IsLastAttemptOffByOne(i, retry_count) == i = retry_count

\* The exception swallowed on every attempt.
IsLastAttemptNever(i, retry_count) == FALSE

\* Line 92: the attempt whose exception is raised to the caller.
IsLastAttempt(i, retry_count) == i = retry_count - 1

\* A constant backoff: the delay is not multiplied by the attempt number.
SleepTimeConstant(retry_delay, i) == retry_delay

\* Line 94: the argument of time.sleep after failed attempt i.
SleepTime(retry_delay, i) == retry_delay * (i + 1)

\* The name of an attempt's outcome.
AttemptOutcome(r) == IF r.raised THEN r.err
                     ELSE IF RaisesForStatus(r.response.status) THEN "HTTPError"
                     ELSE "ok"

\* The error of the first attempt kept and raised at the end.
RaisedErrorFirst(g) == ResultError(g.outcomes[1], 1)

\* Lines 91-93: `raise e` raises the exception the current attempt caught.
RaisedError(g) == ResultError(g.outcomes[Len(g.outcomes)], g.i + 1)

\* Lines 86-93: one attempt.  Every exception of the operation and of
\* raise_for_status is caught by `except Exception`.
ExecuteAttempt(f, url_base, reply) ==
    LET r == Invoke(f.executable, url_base, reply, f.calls + 1)
        o == AttemptOutcome(r)
        g == [f EXCEPT !.calls = f.calls + 1,
                       !.outcomes = Append(f.outcomes, o),
                       !.sent = f.sent \o r.sent]
    IN IF o = "ok"
       THEN [g EXCEPT !.pc = "returned",
                      !.result = ResultResponse(r.response, f.i + 1)]
       ELSE IF IsLastAttempt(f.i, f.retry_count)
            THEN [g EXCEPT !.pc = "raised", !.result = RaisedError(g)]
            ELSE [g EXCEPT !.pc = "sleep"]

\* Line 94, then the next iteration of line 85.
ExecuteSleep(f) ==
    [f EXCEPT !.sleeps = Append(f.sleeps, SleepTime(f.retry_delay, f.i)),
              !.i = f.i + 1,
              !.pc = IF f.i + 1 < f.retry_count THEN "try" ELSE "returned",
              !.result = IF f.i + 1 < f.retry_count THEN NoResult ELSE ResultNone]

(***************************************************************************)
(* HttpRestClient.make_session_ctx: the generator of a context manager.    *)
(* The code after the yield runs only when the with-block is left without  *)
(* an exception; an exception of the block is thrown into the generator at *)
(* the yield and leaves it there.                                          *)
(***************************************************************************)
SessionAfterExit(sess, body_raised) == IF body_raised THEN sess ELSE "closed"

(***************************************************************************)
(* HttpRestClient.make_session.  A dict is a function from its keys; a     *)
(* header or parameter value is a str.  An optional dict argument is None  *)
(* or a dict.                                                              *)
(***************************************************************************)
EmptyDict == [k \in {} |-> <<>>]

\* dict.update(other)
DictUpdate(d, other) ==
    [k \in DOMAIN d \cup DOMAIN other |-> IF k \in DOMAIN other THEN other[k] ELSE d[k]]

\* d[key] = value
DictSet(d, key, value) ==
    [k \in DOMAIN d \cup {key} |-> IF k = key THEN value ELSE d[k]]

NoneDict == [is_none |-> TRUE, d |-> EmptyDict]
SomeDict(d) == [is_none |-> FALSE, d |-> d]

\* `arg or {}`: None and the empty dict are falsy.
DictOrEmpty(arg) == IF arg.is_none \/ arg.d = EmptyDict THEN EmptyDict ELSE arg.d

\* f'Bearer {self.bearer_token}'
BearerValue(token) == <<"B", "e", "a", "r", "e", "r", " ">> \o token.s

\* requests.Session() starts with the library's default headers and with no
\* params and no proxies.
DefaultSessionHeaders == [k \in {"Accept"} |-> <<"*">>]

\* The token written before the caller's headers are merged.
SessionHeadersTokenFirst(defaults, base, headers, token) ==
    LET merged == DictUpdate(defaults, base)
        withToken == IF Truthy(token)
                     THEN DictSet(merged, "Authorization", BearerValue(token))
                     ELSE merged
    IN DictUpdate(withToken, DictOrEmpty(headers))

\* Lines 142-146.
SessionHeaders(defaults, base, headers, token) ==
    LET merged == DictUpdate(DictUpdate(defaults, base), DictOrEmpty(headers))
    IN IF Truthy(token)
       THEN DictSet(merged, "Authorization", BearerValue(token))
       ELSE merged

\* Lines 148-149.
SessionParams(base, params) == DictUpdate(DictUpdate(EmptyDict, base), DictOrEmpty(params))

\* Line 151.
SessionProxies(prox) == DictUpdate(EmptyDict, DictOrEmpty(SomeDict(prox)))

make_session(base_h, base_p, prox, token, headers, params) ==
    [headers |-> SessionHeaders(DefaultSessionHeaders, base_h, headers, token),
     params |-> SessionParams(base_p, params),
     proxies |-> SessionProxies(prox)]

NoSession == [headers |-> EmptyDict, params |-> EmptyDict, proxies |-> EmptyDict]

(***************************************************************************)
(* The inputs.                                                             *)
(***************************************************************************)
BaseUrls == {PyNone, PyStr(<<>>), PyStr(<<"h">>), PyStr(<<"g">>)}
IdInts == {PyInt(k) : k \in 0..MaxId}
IdStrs == {PyStr(<<>>), PyStr(<<"5">>), PyStr(<<"/">>), PyStr(<<"/", "5">>),
           PyStr(<<"5", "/">>)}
Suffixes == {PyNone, PyInt(12)} \cup IdInts \cup IdStrs
Jsons == {NoJson, Json(PyNone)} \cup {Json(v) : v \in IdInts}
Operations ==
    {make_get_function} \cup {make_get_by_id_function(v) : v \in IdInts}
    \cup {make_post_function(NoJson)} \cup {make_put_function(j) : j \in Jsons}
    \cup {make_delete_function(v) : v \in IdInts}
RetryCountArgs == {PyNone} \cup {PyInt(k) : k \in -1..MaxRetry}
RetryDelayArgs == {PyNone} \cup {PyInt(k) : k \in 0..MaxDelay}

\* All dicts with keys among `keys` and values among `values`.
DictsOver(keys, values) == UNION {[d -> values] : d \in SUBSET keys}
HeaderDicts == DictsOver({"Authorization", "Accept"}, {<<"a">>, <<"b">>})
ParamDicts == DictsOver({"page"}, {<<"1">>, <<"2">>})
ProxyDicts == DictsOver({"http"}, {<<"p">>})
Tokens == {PyNone, PyStr(<<>>), PyStr(<<"t">>)}
HeaderArgs == {NoneDict} \cup {SomeDict(d) : d \in HeaderDicts}
ParamArgs == {NoneDict} \cup {SomeDict(d) : d \in ParamDicts}

(***************************************************************************)
(* The state: the client's configuration, the caller's position, the       *)
(* result of a direct make_url call, the scoped session, and the frame of  *)
(* the execute call made inside the with-block.                            *)
(***************************************************************************)
VARIABLES base_url, base_retry_count, base_retry_delay,
          pc, url_arg, url_result, session,
          retry_count_arg, retry_delay_arg, frame

\* The operation the caller built, and the base_url of the client then.
VARIABLES built

(***************************************************************************)
(* The rest of the client's configuration, and one make_session call: its  *)
(* arguments and the session it returned.                                  *)
(***************************************************************************)
VARIABLES base_params, base_headers, proxies, bearer_token,
          headers_arg, params_arg, made

(***************************************************************************)
(* The state of one execute_in_thread_pool call: its arguments funcs,      *)
(* retry_count and max_threads, the position gen of the generator, its     *)
(* locals func (the loop variable the closures _func share) and threads,   *)
(* and the results handed to the caller so far.                            *)
(***************************************************************************)
VARIABLES funcs, pool_retry_count, max_threads, gen, func, threads, yielded

client == <<base_url, base_params, base_headers, proxies, bearer_token,
            base_retry_count, base_retry_delay>>
sessvars == <<headers_arg, params_arg, made>>
callvars == <<pc, url_arg, url_result, session,
              retry_count_arg, retry_delay_arg, frame, built, sessvars>>
poolvars == <<funcs, pool_retry_count, max_threads, gen, func, threads, yielded>>
vars == <<client, callvars, poolvars>>

\* No execute_in_thread_pool call has been made.
NoPool ==
    /\ funcs = <<>>
    /\ pool_retry_count = 0
    /\ max_threads = 0
    /\ gen = "none"
    /\ func = make_get_function
    /\ threads = <<>>
    /\ yielded = <<>>

\* No operation has been built.
NoBuilt == [op |-> make_get_function, url_base |-> PyNone]

\* No make_session call has been made.
NoSessionCall ==
    /\ headers_arg = NoneDict
    /\ params_arg = NoneDict
    /\ made = NoSession

\* HttpRestClient(base_url, ...) with no params, headers, proxies or token:
\* lines 68-71.
PlainClient ==
    /\ base_params = EmptyDict
    /\ base_headers = EmptyDict
    /\ proxies = EmptyDict
    /\ bearer_token = PyNone

\* HttpRestClient.__init__
Init ==
    /\ PlainClient
    /\ NoSessionCall
    /\ base_url \in BaseUrls
    /\ base_retry_count \in 1..MaxRetry
    /\ base_retry_delay \in 0..MaxDelay
    /\ pc = "start"
    /\ url_arg = PyNone
    /\ url_result = UrlOk(<<>>)
    /\ session = "none"
    /\ retry_count_arg = PyNone
    /\ retry_delay_arg = PyNone
    /\ frame = IdleFrame
    /\ built = NoBuilt
    /\ NoPool

\* A direct call client.make_url(append_suffix).
CallMakeUrl ==
    /\ pc = "start"
    /\ \E append_suffix \in Suffixes :
          /\ url_arg' = append_suffix
          /\ url_result' = make_url(base_url, append_suffix)
    /\ pc' = "url_done"
    /\ UNCHANGED <<client, poolvars, sessvars, built, session, retry_count_arg, retry_delay_arg, frame>>

\* with client.make_session_ctx() as session: lines 135-136.
CtxEnter ==
    /\ pc = "start"
    /\ session' = "open"
    /\ pc' = "body"
    /\ UNCHANGED <<client, poolvars, sessvars, built, url_arg, url_result, retry_count_arg, retry_delay_arg, frame>>

\* In the block: op = client.make_<verb>_function(client, session, ...).
\* No make_*_function reads base_url: it only returns the closure.
BuildOperation ==
    /\ pc = "body"
    /\ \E op \in Operations : built' = [op |-> op, url_base |-> base_url]
    /\ pc' = "built"
    /\ UNCHANGED <<client, poolvars, sessvars, url_arg, url_result, session,
                   retry_count_arg, retry_delay_arg, frame>>

\* The caller sets client.base_url after it has built the operation.
SetBaseUrl ==
    /\ pc = "built"
    /\ base_url' \in BaseUrls \ {base_url}
    /\ UNCHANGED <<base_params, base_headers, proxies, bearer_token,
                   base_retry_count, base_retry_delay, callvars, poolvars>>

\* client.execute(op, retry_count=..., retry_delay=...).
CallExecute ==
    /\ pc = "built"
    /\ \E rc \in RetryCountArgs, rd \in RetryDelayArgs :
          /\ retry_count_arg' = rc
          /\ retry_delay_arg' = rd
          /\ frame' = ExecuteEnter(built.op, rc, rd, base_retry_count, base_retry_delay)
    /\ base_retry_count' = BaseRetryCountAfterEnter(base_retry_count, frame'.retry_count)
    /\ pc' = "executing"
    /\ UNCHANGED <<base_url, base_params, base_headers, proxies, bearer_token,
                   base_retry_delay>>
    /\ UNCHANGED <<poolvars, sessvars, built, url_arg, url_result, session>>

Attempt ==
    /\ pc = "executing"
    /\ frame.pc = "try"
    /\ \E reply \in Replies :
          frame' = ExecuteAttempt(frame, OpBaseUrl(built.url_base, base_url), reply)
    /\ UNCHANGED <<client, poolvars, sessvars, built, pc, url_arg, url_result, session, retry_count_arg, retry_delay_arg>>

Sleep ==
    /\ pc = "executing"
    /\ frame.pc = "sleep"
    /\ frame' = ExecuteSleep(frame)
    /\ UNCHANGED <<client, poolvars, sessvars, built, pc, url_arg, url_result, session, retry_count_arg, retry_delay_arg>>

\* The with-block is left: by the return of execute, or by its exception.
CtxExit ==
    /\ pc = "executing"
    /\ frame.pc \in {"returned", "raised"}
    /\ session' = SessionAfterExit(session, frame.pc = "raised")
    /\ pc' = "exited"
    /\ UNCHANGED <<client, poolvars, sessvars, built, url_arg, url_result, retry_count_arg, retry_delay_arg, frame>>

Next ==
    \/ CallMakeUrl \/ CtxEnter \/ BuildOperation \/ SetBaseUrl
    \/ CallExecute \/ Attempt \/ Sleep \/ CtxExit

Spec == Init /\ [][Next]_vars

\* The thread that called execute keeps running: an invocation of the
\* operation returns or raises, and time.sleep returns.
FairSpec == Spec /\ WF_vars(Attempt) /\ WF_vars(Sleep)

(***************************************************************************)
(* commons.threads (ThreadWrapper, start_threads, join_threads).  A        *)
(* ThreadWrapper wraps a target; started, it runs the target and keeps its *)
(* outcome in result.  start_threads starts the threads in list order and  *)
(* lets at most max_threads of them run at a time; join_threads returns    *)
(* when every thread has ended.                                            *)
(***************************************************************************)
ThreadWrapper == [state |-> "new", frame |-> IdleFrame, result |-> NoResult]

RunningThreads(ts) == {t \in 1..Len(ts) : ts[t].state = "running"}

\* The next thread start_threads starts: the first that has not started.
NextToStart(ts) ==
    IF \E t \in 1..Len(ts) : ts[t].state = "new"
    THEN CHOOSE t \in 1..Len(ts) :
            /\ ts[t].state = "new"
            /\ \A u \in 1..(t - 1) : ts[u].state # "new"
    ELSE 0

\* start_threads lets a thread start while fewer than max_threads run.
CanStart(ts, limit) == Cardinality(RunningThreads(ts)) < limit

\* join_threads: every thread has ended.
AllJoined(ts) == \A t \in 1..Len(ts) : ts[t].state = "done"

\* The thread keeps what its target returned or raised.
ThreadAfter(th, f) ==
    IF f.pc \in {"returned", "raised"}
    THEN [th EXCEPT !.frame = f, !.state = "done", !.result = f.result]
    ELSE [th EXCEPT !.frame = f]

(***************************************************************************)
(* HttpRestClient.execute_in_thread_pool.                                  *)
(***************************************************************************)
\* Line 112 passes the call's max_threads on to start_threads.
StartLimit(limit) == limit

\* Lines 106-107: the closure _func of the k-th thread reads the loop
\* variable func when the thread runs it, not when the closure is made.
ClosureFunc(cell, fs, k) == cell

\* The transport's answers in the worker threads.
PoolReplies == {ReplyResponse(200), ReplyResponse(500)}

\* funcs: one get-by-id operation per id 1..n, each built with its own id.
FuncsOf(n) == [k \in 1..n |-> make_get_by_id_function(PyInt(k))]

\* HttpRestClient(base_url='h'): the defaults of lines 64-65.
DefaultRetryCount == 3
DefaultRetryDelay == 1

InitPool ==
    /\ PlainClient
    /\ NoSessionCall
    /\ base_url = PyStr(<<"h">>)
    /\ base_retry_count = DefaultRetryCount
    /\ base_retry_delay = DefaultRetryDelay
    /\ pc = "start"
    /\ url_arg = PyNone
    /\ url_result = UrlOk(<<>>)
    /\ session = "none"
    /\ retry_count_arg = PyNone
    /\ retry_delay_arg = PyNone
    /\ frame = IdleFrame
    /\ built = NoBuilt
    /\ NoPool

\* The call itself: a generator function returns a generator, and nothing
\* of its body has run.
PoolCall ==
    /\ pc = "start"
    /\ \E n \in 0..MaxFuncs, rc \in 1..MaxPoolRetry, limit \in 1..MaxThreads :
          /\ funcs' = FuncsOf(n)
          /\ pool_retry_count' = rc
          /\ max_threads' = limit
    /\ gen' = "created"
    /\ pc' = "pool"
    /\ UNCHANGED <<client, func, threads, yielded, sessvars, built,
                   url_arg, url_result, session, retry_count_arg,
                   retry_delay_arg, frame>>

\* The caller asks for the first result: the body starts (line 103).
PoolFirstNext ==
    /\ gen = "created"
    /\ gen' = IF funcs = <<>> THEN "starting" ELSE "building"
    /\ UNCHANGED <<client, callvars, funcs, pool_retry_count, max_threads,
                   func, threads, yielded>>

\* One iteration of the loop of lines 105-110.
BuildThread ==
    /\ gen = "building"
    /\ LET k == Len(threads) + 1 IN
          /\ func' = funcs[k]
          /\ threads' = Append(threads, ThreadWrapper)
          /\ gen' = IF k = Len(funcs) THEN "starting" ELSE "building"
    /\ UNCHANGED <<client, callvars, funcs, pool_retry_count, max_threads, yielded>>

\* Line 112, start_threads: the next thread starts and enters _func, which
\* calls self.execute(func, retry_count=retry_count).
StartThread ==
    /\ gen = "starting"
    /\ NextToStart(threads) # 0
    /\ CanStart(threads, StartLimit(max_threads))
    /\ LET t == NextToStart(threads)
           f == ExecuteEnter(ClosureFunc(func, funcs, t), PyInt(pool_retry_count),
                             PyNone, base_retry_count, base_retry_delay)
       IN /\ threads' = [threads EXCEPT ![t] =
                            ThreadAfter([threads[t] EXCEPT !.state = "running"], f)]
          /\ base_retry_count' = BaseRetryCountAfterEnter(base_retry_count, f.retry_count)
    /\ UNCHANGED <<base_url, base_params, base_headers, proxies, bearer_token,
                   base_retry_delay>>
    /\ UNCHANGED <<callvars, funcs, pool_retry_count, max_threads,
                   gen, func, yielded>>

\* start_threads returns; line 113 waits in join_threads.
StartThreadsReturn ==
    /\ gen = "starting"
    /\ NextToStart(threads) = 0
    /\ gen' = "joining"
    /\ UNCHANGED <<client, callvars, funcs, pool_retry_count, max_threads,
                   func, threads, yielded>>

\* A running thread makes one attempt of its execute call.
ThreadAttempt ==
    /\ \E t \in RunningThreads(threads), reply \in PoolReplies :
          /\ threads[t].frame.pc = "try"
          /\ threads' = [threads EXCEPT ![t] =
                ThreadAfter(threads[t],
                            ExecuteAttempt(threads[t].frame,
                                           OpBaseUrl(base_url, base_url), reply))]
    /\ UNCHANGED <<client, callvars, funcs, pool_retry_count, max_threads,
                   gen, func, yielded>>

\* A running thread sleeps between two attempts.
ThreadSleep ==
    /\ \E t \in RunningThreads(threads) :
          /\ threads[t].frame.pc = "sleep"
          /\ threads' = [threads EXCEPT ![t] =
                ThreadAfter(threads[t], ExecuteSleep(threads[t].frame))]
    /\ UNCHANGED <<client, callvars, funcs, pool_retry_count, max_threads,
                   gen, func, yielded>>

\* The generator goes on to its results without waiting for the threads.
JoinThreadsReturnNoWait ==
    /\ gen = "joining"
    /\ gen' = "yielding"
    /\ UNCHANGED <<client, callvars, funcs, pool_retry_count, max_threads,
                   func, threads, yielded>>

\* Line 113: join_threads returns.
JoinThreadsReturn ==
    /\ gen = "joining"
    /\ AllJoined(threads)
    /\ gen' = "yielding"
    /\ UNCHANGED <<client, callvars, funcs, pool_retry_count, max_threads,
                   func, threads, yielded>>

\* A loop that yields once before it looks at the list of threads.
YieldResultAtLeastOnce ==
    /\ gen = "yielding"
    /\ Len(yielded) < Len(threads) \/ yielded = <<>>
    /\ yielded' = Append(yielded, IF Len(yielded) < Len(threads)
                                  THEN threads[Len(yielded) + 1].result
                                  ELSE ResultNone)
    /\ UNCHANGED <<client, callvars, funcs, pool_retry_count, max_threads,
                   gen, func, threads>>

\* Lines 115-116: the next result is handed to the caller.
YieldResult ==
    /\ gen = "yielding"
    /\ Len(yielded) < Len(threads)
    /\ yielded' = Append(yielded, threads[Len(yielded) + 1].result)
    /\ UNCHANGED <<client, callvars, funcs, pool_retry_count, max_threads,
                   gen, func, threads>>

\* The loop of line 115 is over: the generator is exhausted.
PoolExhausted ==
    /\ gen = "yielding"
    /\ Len(yielded) = Len(threads)
    /\ gen' = "done"
    /\ UNCHANGED <<client, callvars, funcs, pool_retry_count, max_threads,
                   func, threads, yielded>>

NextPool ==
    \/ PoolCall \/ PoolFirstNext \/ BuildThread \/ StartThread
    \/ StartThreadsReturn \/ ThreadAttempt \/ ThreadSleep
    \/ JoinThreadsReturn \/ YieldResult \/ PoolExhausted

SpecPool == InitPool /\ [][NextPool]_vars

(***************************************************************************)
(* A client with params, headers, proxies and a token, and one call of     *)
(* make_session on it.                                                     *)
(***************************************************************************)
InitSession ==
    /\ base_url = PyStr(<<"h">>)
    /\ base_retry_count = DefaultRetryCount
    /\ base_retry_delay = DefaultRetryDelay
    /\ base_params \in ParamDicts
    /\ base_headers \in HeaderDicts
    /\ proxies \in ProxyDicts
    /\ bearer_token \in Tokens
    /\ NoSessionCall
    /\ pc = "start"
    /\ url_arg = PyNone
    /\ url_result = UrlOk(<<>>)
    /\ session = "none"
    /\ retry_count_arg = PyNone
    /\ retry_delay_arg = PyNone
    /\ frame = IdleFrame
    /\ built = NoBuilt
    /\ NoPool

\* client.make_session(headers=..., params=...): lines 139-153.
MakeSession ==
    /\ pc = "start"
    /\ \E h \in HeaderArgs, p \in ParamArgs :
          /\ headers_arg' = h
          /\ params_arg' = p
          /\ made' = make_session(base_headers, base_params, proxies,
                                  bearer_token, h, p)
    /\ pc' = "session_made"
    /\ UNCHANGED <<client, poolvars, url_arg, url_result, session,
                   retry_count_arg, retry_delay_arg, frame, built>>

NextSession == MakeSession

SpecSession == InitSession /\ [][NextSession]_vars

(***************************************************************************)
(* One client, plain or with every field set, on which the caller makes    *)
(* any of the calls above.                                                 *)
(***************************************************************************)
FullClient ==
    /\ base_params = [p \in {"page"} |-> <<"1">>]
    /\ base_headers = [h \in {"Accept"} |-> <<"a">>]
    /\ proxies = [x \in {"http"} |-> <<"p">>]
    /\ bearer_token = PyStr(<<"t">>)

InitShared ==
    /\ PlainClient \/ FullClient
    /\ NoSessionCall
    /\ base_url = PyStr(<<"h">>)
    /\ base_retry_count = DefaultRetryCount
    /\ base_retry_delay = DefaultRetryDelay
    /\ pc = "start"
    /\ url_arg = PyNone
    /\ url_result = UrlOk(<<>>)
    /\ session = "none"
    /\ retry_count_arg = PyNone
    /\ retry_delay_arg = PyNone
    /\ frame = IdleFrame
    /\ built = NoBuilt
    /\ NoPool

NextShared == Next \/ NextPool \/ NextSession

SpecShared == InitShared /\ [][NextShared]_vars

(***************************************************************************)
(* Properties of execute, make_url, the request factory and the scoped     *)
(* session, checked under Spec.                                            *)
(***************************************************************************)
InExecute == pc \in {"executing", "exited"}
Ended(f) == f.pc \in {"returned", "raised"}
AllFailed(f) == \A k \in 1..Len(f.outcomes) : f.outcomes[k] # "ok"
ExplicitRetryCount == retry_count_arg.t = "int" /\ retry_count_arg.n >= 1

\* C2: for every retry_count >= 1 passed to execute, an operation that has
\* failed on every invocation (transport error or error status) is never
\* invoked more than retry_count times, execute does not end before the
\* retry_count-th invocation, and it ends by raising an error.
C2_AlwaysFailingInvokedRetryCountTimes ==
    (InExecute /\ ExplicitRetryCount /\ AllFailed(frame)) =>
        /\ frame.calls <= retry_count_arg.n
        /\ frame.calls < retry_count_arg.n => ~Ended(frame)
        /\ Ended(frame) => /\ frame.pc = "raised"
                           /\ frame.result.kind = "error"
                           /\ frame.calls = retry_count_arg.n

\* An operation failed three times, by a transport error and by an error
\* status, and execute raised after the third invocation.
C2_Witness ==
    /\ InExecute /\ retry_count_arg = PyInt(3)
    /\ frame.pc = "raised" /\ frame.calls = 3
    /\ frame.outcomes = <<"TransportError", "HTTPError", "TransportError">>

\* C3: linear backoff.  The operation is never invoked after a success;
\* invocations and sleeps alternate, starting with an invocation (the
\* number of sleeps is the number of invocations or one less); the j-th
\* sleep is the call's delay times j; and when attempt k+1 succeeds after k
\* failures, execute has returned the response of that attempt after k+1
\* invocations and k sleeps, none after the success.
C3_LinearBackoff ==
    InExecute =>
        LET k == Len(frame.sleeps) IN
        /\ \A j \in 1..(Len(frame.outcomes) - 1) : frame.outcomes[j] # "ok"
        /\ frame.calls = Len(frame.outcomes)
        /\ k <= frame.calls /\ frame.calls <= k + 1
        /\ \A j \in 1..k : frame.sleeps[j] = frame.retry_delay * j
        /\ (frame.calls > 0 /\ frame.outcomes[frame.calls] = "ok") =>
              /\ frame.pc = "returned"
              /\ frame.result.kind = "response"
              /\ frame.result.response.serial = frame.calls
              /\ ~RaisesForStatus(frame.result.response.status)
              /\ frame.calls = k + 1
              /\ k < frame.retry_count

\* The operation failed twice and succeeded on the third attempt, with a
\* delay of 2: the sleeps were 2 and 4.
C3_Witness ==
    /\ InExecute /\ frame.pc = "returned" /\ frame.retry_delay = 2
    /\ frame.outcomes = <<"HTTPError", "TransportError", "ok">>
    /\ frame.sleeps = <<2, 4>>

\* C6: a configuration error (make_url's error for an unset or empty
\* base_url) is not retried: once an invocation has failed with it, the
\* operation has been invoked once, no sleep has been or will be performed,
\* and execute has raised.
C6_ConfigurationErrorNotRetried ==
    (InExecute /\ ExplicitRetryCount /\ frame.calls >= 1
       /\ frame.outcomes[1] = "ValueError") =>
        /\ frame.calls = 1
        /\ frame.sleeps = <<>>
        /\ frame.pc = "raised"

\* C7: the url claimed for make_url: base_url for None, and for an id the
\* base_url, one '/', and the id as a string (the id's own leading '/' is
\* not doubled).
ClaimedUrl(url_base, id) ==
    IF id.t = "none" THEN url_base.s
    ELSE LET chars == IF id.t = "int" THEN IntToStr(id.n) ELSE id.s
         IN IF StartsWithSlash(chars) THEN url_base.s \o chars
            ELSE url_base.s \o <<"/">> \o chars

C7_MakeUrlAppendsEveryId ==
    pc = "url_done" =>
        IF Truthy(base_url)
        THEN /\ ~url_result.raised
             /\ url_result.url = ClaimedUrl(base_url, url_arg)
        ELSE url_result.raised

\* C8: the operation of make_put_function fails and sends nothing when the
\* payload has no 'id' or a null 'id'; otherwise every request it sends is
\* a PUT to base_url + '/' + id.
C8_PutValidatesId ==
    (InExecute /\ frame.executable.verb = "PUT" /\ frame.calls >= 1) =>
        LET json == frame.executable.json IN
        IF ~json.has_id \/ json.id.t = "none"
        THEN frame.sent = <<>> /\ AllFailed(frame)
        ELSE Truthy(base_url) =>
                /\ Len(frame.sent) = frame.calls
                /\ \A k \in 1..Len(frame.sent) :
                      frame.sent[k] = Request("PUT", ClaimedUrl(base_url, json.id))

\* C9: once the with-block of make_session_ctx has been left, the session
\* is closed, whichever way the block was left.
C9_SessionClosedOnEveryExit ==
    pc = "exited" => session = "closed"

\* C10: with retry_count = 1 the operation is invoked at most once, execute
\* ends with that one invocation, and no sleep is performed or pending.
C10_SingleAttemptNoSleep ==
    (InExecute /\ retry_count_arg = PyInt(1)) =>
        /\ frame.calls <= 1
        /\ frame.sleeps = <<>>
        /\ frame.pc # "sleep"
        /\ frame.calls = 1 <=> Ended(frame)

\* With retry_count = 1 and another base_retry_count, the one attempt failed
\* and execute raised.
C10_Witness ==
    /\ InExecute /\ retry_count_arg = PyInt(1) /\ base_retry_count > 1
    /\ frame.pc = "raised" /\ frame.calls = 1
    /\ frame.outcomes = <<"HTTPError">>

\* C13: the sleeps follow the retry_delay the caller passed, 0 included,
\* and the client's base_retry_delay only when none was passed: the j-th
\* sleep is that delay times j.
C13_DelayOverrideHonoured ==
    InExecute =>
        LET delay == IF retry_delay_arg.t = "int" THEN retry_delay_arg.n
                     ELSE base_retry_delay
        IN \A j \in 1..Len(frame.sleeps) : frame.sleeps[j] = delay * j

\* C14: when execute raises, the error is the one of the final attempt:
\* its attempt number is the number of invocations, which is retry_count,
\* and its kind is the outcome of that attempt.
C14_RaisesErrorOfFinalAttempt ==
    (InExecute /\ frame.pc = "raised") =>
        /\ frame.result.kind = "error"
        /\ frame.calls = frame.retry_count
        /\ frame.result.attempt = frame.calls
        /\ frame.result.err = frame.outcomes[frame.calls]

\* The first attempt ended in a transport error, the second and last in an
\* error status, and execute raised the latter.
C14_Witness ==
    /\ InExecute /\ frame.pc = "raised"
    /\ frame.outcomes = <<"TransportError", "HTTPError">>
    /\ frame.result.err = "HTTPError" /\ frame.result.attempt = 2

\* C15: an attempt that ended in an error status is followed by what
\* follows a transport error: the backoff sleep and the next attempt, or the
\* raise when it was the last attempt.  A response execute returns has no
\* 4xx or 5xx status and is the response of the last invocation, the one
\* that succeeded, to the request that invocation sent.
C15_ErrorStatusRetriedLikeTransportError ==
    InExecute =>
        /\ (frame.calls >= 1
              /\ frame.outcomes[frame.calls] \in {"HTTPError", "TransportError"}) =>
              IF frame.calls = frame.retry_count
              THEN frame.pc = "raised" /\ Len(frame.sleeps) = frame.calls - 1
              ELSE \/ frame.pc = "sleep" /\ Len(frame.sleeps) = frame.calls - 1
                   \/ frame.pc = "try" /\ Len(frame.sleeps) = frame.calls
        /\ frame.result.kind = "response" =>
              /\ frame.pc = "returned"
              /\ ~(frame.result.response.status >= 400
                     /\ frame.result.response.status < 600)
              /\ frame.outcomes[frame.calls] = "ok"
              /\ frame.result.response.serial = frame.calls
              /\ frame.sent # <<>>
              /\ frame.result.response.url = frame.sent[Len(frame.sent)].url

\* A transport error, then an error status, then the response that execute
\* returned.
C15_Witness ==
    /\ InExecute /\ frame.pc = "returned"
    /\ frame.outcomes = <<"TransportError", "HTTPError", "ok">>
    /\ frame.result.response.serial = 3
    /\ Len(frame.sleeps) = 2

\* C16: the operation was built whatever base_url was then; each of its
\* invocations reads the base_url of the client at that time: with a
\* base_url set, the invocation does not fail with the configuration error
\* and sends its request to a url that starts with that base_url; with
\* base_url unset or empty, it fails with the configuration error and sends
\* nothing.  (A PUT whose payload has no 'id' fails before it reads it.)
C16_BaseUrlCheckedLazily ==
    InExecute =>
        LET op == frame.executable
            set == (base_url.t = "str" /\ base_url.s # <<>>)
        IN /\ op = built.op
           /\ \A k \in 1..frame.calls :
                 IF op.verb = "PUT" /\ ~op.json.has_id
                 THEN frame.outcomes[k] = "KeyError"
                 ELSE IF set
                      THEN /\ frame.outcomes[k] # "ValueError"
                           /\ Len(frame.sent) = frame.calls
                           /\ SubSeq(frame.sent[k].url, 1, Len(base_url.s)) = base_url.s
                      ELSE /\ frame.outcomes[k] = "ValueError"
                           /\ frame.sent = <<>>

\* An operation built while base_url was unset, invoked after base_url was
\* set, got a response from a url under the new base_url.
C16_Witness ==
    /\ InExecute /\ built.url_base = PyNone /\ base_url = PyStr(<<"h">>)
    /\ frame.pc = "returned" /\ frame.result.kind = "response"
    /\ frame.result.response.url = <<"h", "/", "1">>

\* C19: with retry_count omitted or >= 1, execute never invokes the
\* operation more often than the retry count in effect (the argument, or
\* base_retry_count when omitted); when it has ended it has invoked the
\* operation at least once and has either returned a response that passed
\* the status check or raised an error, never returned None; and every
\* call of execute ends.
ValidRetryCount == retry_count_arg.t = "none" \/ retry_count_arg.n >= 1

C19_Outcome ==
    (InExecute /\ ValidRetryCount) =>
        /\ frame.calls <= (IF retry_count_arg.t = "int" THEN retry_count_arg.n
                           ELSE base_retry_count)
        /\ Ended(frame) =>
              /\ frame.calls >= 1
              /\ frame.result.kind \in {"response", "error"}
              /\ frame.result.kind = "response" <=> frame.pc = "returned"
              /\ frame.result.kind = "error" <=> frame.pc = "raised"

C19_ExecuteTotal ==
    /\ []C19_Outcome
    /\ (pc = "executing" /\ ValidRetryCount) ~> (InExecute /\ Ended(frame))

\* With retry_count omitted and base_retry_count 2, execute raised after
\* two invocations.
C19_Witness ==
    /\ InExecute /\ retry_count_arg = PyNone /\ base_retry_count = 2
    /\ frame.pc = "raised" /\ frame.calls = 2

(***************************************************************************)
(* Properties of execute_in_thread_pool, checked under SpecPool.           *)
(***************************************************************************)
Joined == gen \in {"yielding", "done"}

\* funcs[k] has been invoked by some worker thread.
Invoked(k) ==
    \E t \in 1..Len(threads) :
        /\ threads[t].frame.executable = funcs[k]
        /\ threads[t].frame.calls >= 1

\* funcs[k] has run to its own completion in some worker thread: a
\* response, or an error after pool_retry_count invocations.
Completed(k) ==
    \E t \in 1..Len(threads) :
        LET f == threads[t].frame IN
        /\ f.executable = funcs[k]
        /\ f.calls >= 1
        /\ \/ f.pc = "returned" /\ f.result.kind = "response"
           \/ f.pc = "raised" /\ f.calls = pool_retry_count

\* C1: the k-th yielded result is the result of the k-th thread, that
\* thread ran funcs[k] itself, and when the generator is exhausted it has
\* yielded as many results as there are operations.
C1_ResultsInSubmissionOrder ==
    Joined =>
        /\ \A k \in 1..Len(yielded) :
              /\ yielded[k] = threads[k].result
              /\ threads[k].frame.executable = funcs[k]
        /\ gen = "done" => Len(yielded) = Len(funcs)

\* C4: never more than max_threads worker threads run at the same time, and
\* once the threads are joined there is one thread per operation (none was
\* rejected) and every excess operation, one submitted after the first
\* max_threads, has been run.
C4_BoundedConcurrencyAllRun ==
    gen # "none" =>
        /\ Cardinality(RunningThreads(threads)) <= max_threads
        /\ Joined => /\ Len(threads) = Len(funcs)
                     /\ \A k \in (max_threads + 1)..Len(funcs) : Invoked(k)

\* C5: once the threads are joined, every submitted operation has been
\* invoked and has run to its own completion, whatever the outcome of the
\* other operations.
C5_EveryOperationRunsToCompletion ==
    Joined => \A k \in 1..Len(funcs) : Completed(k)

(***************************************************************************)
(* Properties of make_session, checked under SpecSession.                  *)
(***************************************************************************)
\* The value the merge rule gives a key: the caller's, else the client's,
\* else the session's own default.
MergedValue(key, defaults, base, extra) ==
    IF key \in DOMAIN extra THEN extra[key]
    ELSE IF key \in DOMAIN base THEN base[key]
    ELSE defaults[key]

\* C11: when the client has a bearer token T, the session's Authorization
\* header is 'Bearer T' whatever the base and the caller's headers hold;
\* every other header and every param has the caller's value when the
\* caller gives one, else the client's base value.
C11_BearerTokenPrecedence ==
    pc = "session_made" =>
        LET extra_h == IF headers_arg.is_none THEN EmptyDict ELSE headers_arg.d
            extra_p == IF params_arg.is_none THEN EmptyDict ELSE params_arg.d
            has_token == bearer_token.t = "str" /\ bearer_token.s # <<>>
        IN /\ has_token =>
                /\ "Authorization" \in DOMAIN made.headers
                /\ made.headers["Authorization"] =
                      <<"B", "e", "a", "r", "e", "r", " ">> \o bearer_token.s
           /\ DOMAIN made.headers =
                 DOMAIN DefaultSessionHeaders \cup DOMAIN base_headers
                 \cup DOMAIN extra_h
                 \cup (IF has_token THEN {"Authorization"} ELSE {})
           /\ \A k \in DOMAIN made.headers :
                 (k # "Authorization" \/ ~has_token) =>
                    made.headers[k] =
                       MergedValue(k, DefaultSessionHeaders, base_headers, extra_h)
           /\ DOMAIN made.params = DOMAIN base_params \cup DOMAIN extra_p
           /\ \A k \in DOMAIN made.params :
                 made.params[k] = MergedValue(k, EmptyDict, base_params, extra_p)

\* The caller's headers carry their own Authorization and override the
\* client's Accept; the client has the token 't'.
C11_Witness ==
    /\ pc = "session_made"
    /\ bearer_token = PyStr(<<"t">>)
    /\ ~headers_arg.is_none
    /\ DOMAIN headers_arg.d = {"Authorization", "Accept"}
    /\ headers_arg.d["Authorization"] = <<"a">>
    /\ DOMAIN base_headers = {"Authorization", "Accept"}
    /\ base_headers["Accept"] # headers_arg.d["Accept"]
    /\ made.headers["Accept"] = headers_arg.d["Accept"]

\* C12: a call with no operations runs nothing: no thread is made, the
\* loop of line 105 is never entered, nothing is yielded, and the generator
\* ends exhausted.
C12_EmptyPoolYieldsNothing ==
    (gen # "none" /\ funcs = <<>>) =>
        /\ threads = <<>>
        /\ yielded = <<>>
        /\ gen \in {"created", "starting", "joining", "yielding", "done"}

\* The generator of a call with no operations is exhausted.
C12_Witness == gen = "done" /\ funcs = <<>> /\ yielded = <<>>

\* C18: no thread exists and no operation has been invoked before the
\* caller asks for the first result; a thread that has not been started
\* has invoked nothing; and from the moment the generator reaches its
\* results (and so whenever a result has been yielded) every thread has
\* ended: none is in an attempt or in a backoff sleep.
C18_JoinBarrier ==
    /\ gen \in {"none", "created"} => threads = <<>>
    /\ \A t \in 1..Len(threads) :
          threads[t].state = "new" => threads[t].frame = IdleFrame
    /\ (yielded # <<>> \/ gen \in {"yielding", "done"}) =>
          /\ Len(threads) = Len(funcs)
          /\ \A t \in 1..Len(threads) :
                /\ threads[t].state = "done"
                /\ threads[t].frame.pc \in {"returned", "raised"}

\* The first of three results has been yielded; one of the threads had
\* slept between two attempts.
C18_Witness ==
    /\ gen = "yielding" /\ Len(yielded) = 1 /\ Len(threads) = 3
    /\ \E t \in 1..Len(threads) : threads[t].frame.sleeps # <<>>

(***************************************************************************)
(* Properties of the client's configuration, checked under SpecShared.     *)
(***************************************************************************)
\* A step of make_url, make_session, execute or execute_in_thread_pool.
MethodStep ==
    \/ CallMakeUrl \/ MakeSession \/ CtxEnter
    \/ CallExecute \/ Attempt \/ Sleep
    \/ NextPool

\* A step in which the attempt counter of worker t moves.
CounterMoves(t) ==
    /\ t \in DOMAIN threads'
    /\ threads'[t].frame.i # threads[t].frame.i

\* C17: no step of execute, execute_in_thread_pool, make_url or make_session
\* changes a field of the client (base_url, base_params, base_headers,
\* proxies, bearer_token, base_retry_count, base_retry_delay), whatever the
\* interleaving of the workers; and a step that moves one worker's attempt
\* counter leaves the frame of every other worker and of the caller as it
\* was, each counter counting the sleeps of its own execute call.
C17_SharedConfigurationReadOnly ==
    [][/\ MethodStep => client' = client
       /\ \A t \in DOMAIN threads :
             /\ threads[t].frame.i = Len(threads[t].frame.sleeps)
             /\ CounterMoves(t) =>
                   /\ frame' = frame
                   /\ \A u \in DOMAIN threads \ {t} :
                         threads'[u].frame = threads[u].frame]_vars

\* Two workers of a client with every field set run at the same time, the
\* first in its second attempt and the second in its first; the client is
\* as constructed.
C17_Witness ==
    /\ FullClient
    /\ base_retry_count = DefaultRetryCount
    /\ Len(threads) >= 2
    /\ threads[1].state = "running" /\ threads[1].frame.i = 1
    /\ threads[2].state = "running" /\ threads[2].frame.i = 0
    /\ threads[2].frame.calls = 1

====
